---- MODULE Spec2Model ----
(***************************************************************************)
(* A model of the YouTube analytics loader (the main run: token exchange,  *)
(* analytics report, batched metadata fetch, privacy filter, dated JSON    *)
(* snapshot) and of its companion authorization helper (--code mode and    *)
(* the local one-shot callback listener).                                  *)
(*                                                                         *)
(* Conventions.  A video id is a natural number; 0 stands for the empty    *)
(* string, the only falsy id the code can build.  Null stands for the      *)
(* JavaScript values null and undefined.  A Date is the number of days     *)
(* since 1970-01-01 in local time; format() turns it into the calendar     *)
(* date yyyy-MM-dd, written as the number yyyyMMdd.                        *)
(***************************************************************************)
EXTENDS Integers, Sequences, FiniteSets, TLC

VARIABLES
    \* ---- the main run -------------------------------------------------
    pc,           \* where main() stands
    env,          \* the environment variables that are set
    clock,        \* what new Date() returns now (a day number)
    ticks,        \* midnights passed since the start
    accessToken,  \* main's accessToken
    window,       \* the startDate / endDate of the analytics request
    rawRecords,   \* main's rawRecords (transformRows' result)
    videoIds,     \* main's videoIds
    i,            \* fetchVideoMetadata's loop index
    result,       \* fetchVideoMetadata's result Map (main's metadataMap)
    records,      \* main's records
    fs,           \* the files under data/analytics: path -> content
    fs0,          \* fs when this run started
    savedPath,    \* the path this run wrote, << >> when it wrote nothing
    exitCode,     \* the exit code; final once pc = "exited"
    stderr,       \* console.error lines of this run
    stdout,       \* console.log lines of this run
    requests,     \* HTTP requests this run issued, in order
    responses,    \* what this run received, in order (HTTP and file system)
    outstanding,  \* HTTP requests issued and not yet answered
    runs,         \* the number of the current run
    replay,       \* the previous run's responses, which a re-run receives again
    prev,         \* what the previous run left behind
    \* ---- the authorization helper --------------------------------------
    apc,          \* where the helper's main() stands
    args,         \* parseArgs' result
    aenv,         \* the environment variables that are set
    listening,    \* the server accepts requests
    pending,      \* callback handlers awaiting their token exchange
    inbound,      \* requests the server has received
    callbacks,    \* requests handled as a callback (path /oauth2callback)
    exchanges,    \* token exchanges performed (exchangeCode calls)
    printed,      \* refresh tokens printed
    aerrors,      \* console.error lines of the helper
    aexit         \* process.exitCode; the final code once apc = "exited"

mainVars == <<pc, env, clock, ticks, accessToken, window, rawRecords, videoIds,
              i, result, records, fs, fs0, savedPath, exitCode, stderr, stdout,
              requests, responses, outstanding, runs, replay, prev>>

authVars == <<apc, args, aenv, listening, pending, inbound, callbacks, exchanges,
              printed, aerrors, aexit>>

vars == <<mainVars, authVars>>

-----------------------------------------------------------------------------
(* Bounds of the model *)

\* rows of the analytics report: every sequence of ids up to this length ...
MaxRows == 2
\* ... and one long report, of this many rows (more than one metadata chunk)
LongRows == 51
\* the distinct videos the metadata service knows (ids 1..NumIds)
NumIds == 2
\* midnights that may pass
MaxTicks == 1
\* runs of the pipeline (a re-run receives the same upstream responses)
MaxRuns == 2
\* the day the model's clock starts at: 2024-12-31
FirstDay == 20088
\* the date window is checked for every day from this many days earlier on
MaxDays == 800
\* ids handed to fetchVideoMetadata when its batching is checked
MaxVideoIds == 101
\* inbound requests to the helper's listener
MaxInbound == 3

Null == "null"

Min(a, b) == IF a < b THEN a ELSE b

-----------------------------------------------------------------------------
(* date-fns: format(date, 'yyyy-MM-dd') and subDays(date, amount) *)

\* the civil date of a day number (proleptic Gregorian calendar)
CivilFromDays(z0) ==
    LET z   == z0 + 719468
        era == z \div 146097
        doe == z - era * 146097
        yoe == (doe - doe \div 1460 + doe \div 36524 - doe \div 146096) \div 365
        doy == doe - (365 * yoe + yoe \div 4 - yoe \div 100)
        mp  == (5 * doy + 2) \div 153
        d   == doy - (153 * mp + 2) \div 5 + 1
        m   == IF mp < 10 THEN mp + 3 ELSE mp - 9
        y   == yoe + era * 400 + (IF m <= 2 THEN 1 ELSE 0)
    IN  [y |-> y, m |-> m, d |-> d]

format(date) ==
    LET c == CivilFromDays(date) IN c.y * 10000 + c.m * 100 + c.d

subDays(date, amount) == date - amount

\* fetchAnalytics: the date window of the report
DateWindow(today) ==
    [startDate |-> format(subDays(today, 28)), endDate |-> format(today)]

-----------------------------------------------------------------------------
(* The main run: helpers *)

REQUIRED_ENV == {"YT_CLIENT_ID", "YT_CLIENT_SECRET", "YT_REFRESH_TOKEN"}

\* a bug: the refresh token is not among the variables checked
Missing_mut(e) == {"YT_CLIENT_ID", "YT_CLIENT_SECRET"} \ e

\* assertEnv: the required variables that are not set
Missing(e) == REQUIRED_ENV \ e

\* JavaScript truthiness of a string-or-null value
Truthy(v) == v \notin {Null, ""}

\* a bug: the status of a response is not looked at
ResponseOk_mut(resp) == TRUE

\* `!response.ok` is what every fetch tests
ResponseOk(resp) == resp.ok

\* a bug: the token response is not checked for its access_token
HasAccessToken_mut(data) == TRUE

\* exchangeRefreshToken: `!data.access_token`
HasAccessToken(data) == Truthy(data.access_token)

\* a bug: a failed request is issued again
FailFast_mut(retryPc) == retryPc

\* process.exit(1) after a failed request: the run is over (nothing is retried)
FailFast(retryPc) == "exited"

chunkSize == 50

\* a bug: the end index is taken as inclusive
slice_mut(s, from, to) == SubSeq(s, from + 1, Min(to + 1, Len(s)))

\* Array.prototype.slice(from, to) for 0 <= from <= to
slice(s, from, to) == SubSeq(s, from + 1, Min(to, Len(s)))

\* the for loop's `i += chunkSize`
NextIndex(k) == k + chunkSize

\* the `views` cell of the report's k-th row: the report is requested with
\* sort=-views, so the cells decrease down the rows
ViewsCell(k) == 1000 - k

\* transformRows: one raw record per row; without column headers the video id
\* is '' and every metric is 0, and there is no record at all without rows
transformRows(payload) ==
    IF ~payload.hasRows \/ Len(payload.rows) = 0
    THEN << >>
    ELSE [k \in 1..Len(payload.rows) |->
            [videoId |-> IF payload.hasHeaders THEN payload.rows[k] ELSE 0,
             metrics |-> [views |-> IF payload.hasHeaders THEN ViewsCell(k)
                                    ELSE 0]]]

\* rawRecords.map((entry) => entry.videoId).filter(Boolean)
VideoIdsOf(raw) ==
    SelectSeq([k \in 1..Len(raw) |-> raw[k].videoId], LAMBDA v : v # 0)

\* the entry fetchVideoMetadata stores for one item of a response
MetaOf(item) ==
    [title         |-> item.snippet.title,
     description   |-> item.snippet.description,
     tags          |-> item.snippet.tags,
     publishedAt   |-> item.snippet.publishedAt,
     privacyStatus |-> item.status.privacyStatus]

\* payload.items?.forEach(...): items without an id are skipped, a later item
\* of the same id replaces the earlier one
RECURSIVE SetItems(_, _)
SetItems(map, items) ==
    IF items = << >> THEN map
    ELSE LET item == Head(items)
         IN  SetItems(IF item.id = 0 THEN map
                      ELSE (item.id :> MetaOf(item)) @@ map,
                      Tail(items))

\* what `meta?.x` reads when metadataMap has no entry
NoMeta ==
    [title |-> Null, description |-> Null, tags |-> << >>,
     publishedAt |-> Null, privacyStatus |-> Null]

MapGet(map, videoId) ==
    IF videoId \in DOMAIN map THEN map[videoId] ELSE NoMeta

\* a bug: only private videos are dropped
IsDropped_mut(meta) == meta.privacyStatus = "private"

\* main: `meta?.privacyStatus && meta.privacyStatus !== 'public'`
IsDropped(meta) ==
    Truthy(meta.privacyStatus) /\ meta.privacyStatus # "public"

\* utils.js standardize, as main calls it
standardize(videoId, meta, metrics) ==
    [platform   |-> "youtube",
     post_id    |-> videoId,
     permalink  |-> <<"https://www.youtube.com/watch?v=", videoId>>,
     created_at |-> meta.publishedAt,
     text       |-> meta.description,
     hashtags   |-> meta.tags,
     metrics    |-> metrics,
     extra      |-> IF Truthy(meta.title) THEN {<<"title", meta.title>>}
                    ELSE {}]

NullRecord == [platform |-> Null]

\* a bug: a row whose video has no metadata entry is left out
BuildRecords_mut(raw, map) ==
    SelectSeq([k \in 1..Len(raw) |->
                 LET meta == MapGet(map, raw[k].videoId)
                 IN  IF raw[k].videoId \notin DOMAIN map \/ IsDropped(meta)
                     THEN NullRecord
                     ELSE standardize(raw[k].videoId, meta, raw[k].metrics)],
              LAMBDA r : r # NullRecord)

\* main: rawRecords.map(...).filter(Boolean)
BuildRecords(raw, map) ==
    SelectSeq([k \in 1..Len(raw) |->
                 LET meta == MapGet(map, raw[k].videoId)
                 IN  IF IsDropped(meta) THEN NullRecord
                     ELSE standardize(raw[k].videoId, meta, raw[k].metrics)],
              LAMBDA r : r # NullRecord)

\* utils.js saveStandardJson: <dir>/<stamp>-<platform>-analytics.json
FilePath(date, platform) == <<format(date), platform>>

\* a bug: the records are appended to the file that is there
writeJson_mut(files, filePath, content) ==
    (filePath :> (IF filePath \in DOMAIN files THEN files[filePath] \o content
                  ELSE content)) @@ files

\* fs-extra writeJson: the file holds exactly the records afterwards
writeJson(files, filePath, content) == (filePath :> content) @@ files

-----------------------------------------------------------------------------
(* The upstream services and the file system: what they may answer *)

EmptyMap == [x \in {} |-> Null]

\* sequences over S of length at most n
SeqsUpTo(S, n) == UNION {[1..k -> S] : k \in 0..n}

TokenResponses ==
    {[kind |-> "token", ok |-> FALSE, body |-> [access_token |-> Null]],
     [kind |-> "token", ok |-> TRUE,  body |-> [access_token |-> Null]],
     [kind |-> "token", ok |-> TRUE,  body |-> [access_token |-> "ya29"]]}

\* the `video` column of the report's rows
RowChoices ==
    SeqsUpTo(0..NumIds, MaxRows) \cup {[k \in 1..LongRows |-> k]}

\* a report body: not an object at all (JSON null), or an object with or
\* without columnHeaders and rows
Payloads ==
    {[isObject |-> FALSE, hasHeaders |-> FALSE, hasRows |-> FALSE, rows |-> << >>]}
    \cup {[isObject |-> TRUE, hasHeaders |-> h, hasRows |-> FALSE, rows |-> << >>] :
            h \in BOOLEAN}
    \cup {[isObject |-> TRUE, hasHeaders |-> h, hasRows |-> TRUE, rows |-> r] :
            h \in BOOLEAN, r \in RowChoices}

\* an error body is a JSON object without the report's fields
ErrorPayload ==
    [isObject |-> TRUE, hasHeaders |-> FALSE, hasRows |-> FALSE, rows |-> << >>]

AnalyticsResponses ==
    {[kind |-> "analytics", ok |-> FALSE, body |-> ErrorPayload]}
    \cup {[kind |-> "analytics", ok |-> TRUE, body |-> p] : p \in Payloads}

PrivacyValues == {"public", "private", "unlisted", Null}

\* the snippet the metadata service holds for a video: odd ids have one,
\* even ids have none
SnippetOf(id) ==
    IF id % 2 = 1
    THEN [title |-> "title", description |-> "text", tags |-> <<"tag">>,
          publishedAt |-> "2024-01-01T00:00:00Z"]
    ELSE [title |-> Null, description |-> Null, tags |-> << >>,
          publishedAt |-> Null]

\* the videos of a request that the metadata service knows
KnownIn(chunk) == {chunk[k] : k \in 1..Len(chunk)} \cap (1..NumIds)

ItemOf(v, p) ==
    [id |-> v, snippet |-> SnippetOf(v), status |-> [privacyStatus |-> p]]

\* one item for each video of S that `answer` does not leave out, in
\* ascending order of id
RECURSIVE ItemsOf(_, _)
ItemsOf(S, answer) ==
    IF S = {} THEN << >>
    ELSE LET v == CHOOSE x \in S : \A y \in S : x <= y
         IN  (IF answer[v] = "omitted" THEN << >>
              ELSE <<ItemOf(v, answer[v])>>) \o ItemsOf(S \ {v}, answer)

\* the item lists a response to a request for `chunk` may carry: each known
\* video requested is left out or comes with some privacy status (or with
\* none), and an item without an id may lead the list
ItemLists(chunk) ==
    {(IF noId THEN <<ItemOf(0, Null)>> ELSE << >>) \o ItemsOf(KnownIn(chunk), answer) :
        noId \in BOOLEAN,
        answer \in [KnownIn(chunk) -> PrivacyValues \cup {"omitted"}]}

MetaResponses(chunk) ==
    {[kind |-> "meta", ok |-> FALSE, body |-> [items |-> << >>]]}
    \cup {[kind |-> "meta", ok |-> TRUE, body |-> [items |-> s]] :
            s \in ItemLists(chunk)}

\* ensureDir / writeJson: done, or thrown
FsResponses == {[kind |-> "fs", ok |-> b, body |-> Null] : b \in BOOLEAN}

\* what upstream may answer now: any of `choices` in a first run; a re-run
\* receives what the previous run received at this point
Offered(choices) ==
    IF runs = 1 THEN choices
    ELSE IF Len(responses) < Len(replay)
    THEN {replay[Len(responses) + 1]}
    ELSE {}

Request(endpoint, ids, w) ==
    [endpoint |-> endpoint, id |-> ids,
     startDate |-> w.startDate, endDate |-> w.endDate]

NoWindow == [startDate |-> 0, endDate |-> 0]

-----------------------------------------------------------------------------
(* The main run: main() of the analytics script *)

\* console.error(...); process.exit(1)
Die(msg) ==
    /\ pc' = "exited"
    /\ exitCode' = 1
    /\ stderr' = Append(stderr, msg)

\* the same after a non-success HTTP response
DieOnHttpError(msg, retryPc) ==
    /\ pc' = FailFast(retryPc)
    /\ exitCode' = 1
    /\ stderr' = Append(stderr, msg)

Issue(req) ==
    /\ requests' = Append(requests, req)
    /\ outstanding' = outstanding + 1

Receive(resp) == responses' = Append(responses, resp)

assertEnv ==
    /\ pc = "assertEnv"
    /\ IF Missing(env) # {}
       THEN Die("Missing required environment variables")
       ELSE pc' = "ensureDir" /\ UNCHANGED <<exitCode, stderr>>
    /\ UNCHANGED <<env, clock, ticks, accessToken, window, rawRecords, videoIds,
                   i, result, records, fs, fs0, savedPath, stdout, requests,
                   responses, outstanding, runs, replay, prev>>
    /\ UNCHANGED authVars

\* await ensureDir('data/analytics'): a throw lands in main's catch
ensureDir ==
    /\ pc = "ensureDir"
    /\ \E resp \in Offered(FsResponses) :
         /\ Receive(resp)
         /\ IF resp.ok
            THEN pc' = "exchangeRefreshToken" /\ UNCHANGED <<exitCode, stderr>>
            ELSE Die("Unexpected error")
    /\ UNCHANGED <<env, clock, ticks, accessToken, window, rawRecords, videoIds,
                   i, result, records, fs, fs0, savedPath, stdout, requests,
                   outstanding, runs, replay, prev>>
    /\ UNCHANGED authVars

TokenRequest ==
    /\ pc = "exchangeRefreshToken"
    /\ Issue(Request("token", << >>, NoWindow))
    /\ pc' = "awaitToken"
    /\ UNCHANGED <<env, clock, ticks, accessToken, window, rawRecords, videoIds,
                   i, result, records, fs, fs0, savedPath, exitCode, stderr,
                   stdout, responses, runs, replay, prev>>
    /\ UNCHANGED authVars

TokenResponse ==
    /\ pc = "awaitToken"
    /\ \E resp \in Offered(TokenResponses) :
         /\ Receive(resp)
         /\ IF ~ResponseOk(resp)
            THEN /\ DieOnHttpError("Failed to refresh access token",
                                   "exchangeRefreshToken")
                 /\ UNCHANGED accessToken
            ELSE IF ~HasAccessToken(resp.body)
            THEN /\ Die("Access token not present in refresh token response.")
                 /\ UNCHANGED accessToken
            ELSE /\ accessToken' = resp.body.access_token
                 /\ pc' = "fetchAnalytics"
                 /\ UNCHANGED <<exitCode, stderr>>
    /\ outstanding' = outstanding - 1
    /\ UNCHANGED <<env, clock, ticks, window, rawRecords, videoIds, i, result,
                   records, fs, fs0, savedPath, stdout, requests, runs, replay,
                   prev>>
    /\ UNCHANGED authVars

AnalyticsRequest ==
    /\ pc = "fetchAnalytics"
    /\ window' = DateWindow(clock)
    /\ Issue(Request("reports", << >>, window'))
    /\ pc' = "awaitAnalytics"
    /\ UNCHANGED <<env, clock, ticks, accessToken, rawRecords, videoIds, i,
                   result, records, fs, fs0, savedPath, exitCode, stderr, stdout,
                   responses, runs, replay, prev>>
    /\ UNCHANGED authVars

\* the report arrives; transformRows and the video id list follow at once,
\* and fetchVideoMetadata is entered (result = new Map(), i = 0).
\* A body that is no object makes `analyticsPayload.columnHeaders` throw.
AnalyticsResponse ==
    /\ pc = "awaitAnalytics"
    /\ \E resp \in Offered(AnalyticsResponses) :
         /\ Receive(resp)
         /\ IF ~ResponseOk(resp)
            THEN /\ DieOnHttpError("Failed to fetch analytics", "fetchAnalytics")
                 /\ UNCHANGED <<rawRecords, videoIds, i, result>>
            ELSE IF ~resp.body.isObject
            THEN /\ Die("Unexpected error")
                 /\ UNCHANGED <<rawRecords, videoIds, i, result>>
            ELSE /\ rawRecords' = transformRows(resp.body)
                 /\ videoIds' = VideoIdsOf(rawRecords')
                 /\ result' = EmptyMap
                 /\ i' = 0
                 /\ pc' = "fetchVideoMetadata"
                 /\ UNCHANGED <<exitCode, stderr>>
    /\ outstanding' = outstanding - 1
    /\ UNCHANGED <<env, clock, ticks, accessToken, window, records, fs, fs0,
                   savedPath, stdout, requests, runs, replay, prev>>
    /\ UNCHANGED authVars

\* fetchVideoMetadata: one turn of the loop up to its fetch
MetaRequest ==
    /\ pc = "fetchVideoMetadata"
    /\ i < Len(videoIds)
    /\ Issue(Request("videos", slice(videoIds, i, i + chunkSize), NoWindow))
    /\ pc' = "awaitMetadata"
    /\ UNCHANGED <<env, clock, ticks, accessToken, window, rawRecords, videoIds,
                   i, result, records, fs, fs0, savedPath, exitCode, stderr,
                   stdout, responses, runs, replay, prev>>
    /\ UNCHANGED authVars

\* fetchVideoMetadata: the rest of the turn, from the response on
MetaResponse ==
    /\ pc = "awaitMetadata"
    /\ \E resp \in Offered(MetaResponses(requests[Len(requests)].id)) :
         /\ Receive(resp)
         /\ IF ~ResponseOk(resp)
            THEN /\ DieOnHttpError("Failed to fetch video metadata",
                                   "fetchVideoMetadata")
                 /\ UNCHANGED <<i, result>>
            ELSE /\ result' = SetItems(result, resp.body.items)
                 /\ i' = NextIndex(i)
                 /\ pc' = "fetchVideoMetadata"
                 /\ UNCHANGED <<exitCode, stderr>>
    /\ outstanding' = outstanding - 1
    /\ UNCHANGED <<env, clock, ticks, accessToken, window, rawRecords, videoIds,
                   records, fs, fs0, savedPath, stdout, requests, runs, replay,
                   prev>>
    /\ UNCHANGED authVars

\* fetchVideoMetadata returns (at once for no ids, else when the loop ends)
\* and main builds the records
Normalize ==
    /\ pc = "fetchVideoMetadata"
    /\ ~(i < Len(videoIds))
    /\ records' = BuildRecords(rawRecords, result)
    /\ pc' = "saveStandardJson"
    /\ UNCHANGED <<env, clock, ticks, accessToken, window, rawRecords, videoIds,
                   i, result, fs, fs0, savedPath, exitCode, stderr, stdout,
                   requests, responses, outstanding, runs, replay, prev>>
    /\ UNCHANGED authVars

\* saveStandardJson, then main's console.log; main returns and the process
\* ends with the exit code left as it is.  A throw of ensureDir lands in
\* main's catch before anything is written.
saveStandardJson ==
    /\ pc = "saveStandardJson"
    /\ \E resp \in Offered(FsResponses) :
         /\ Receive(resp)
         /\ IF resp.ok
            THEN /\ fs' = writeJson(fs, FilePath(clock, "youtube"), records)
                 /\ savedPath' = FilePath(clock, "youtube")
                 /\ stdout' = Append(stdout, "Saved")
                 /\ pc' = "exited"
                 /\ UNCHANGED <<exitCode, stderr>>
            ELSE /\ Die("Unexpected error")
                 /\ UNCHANGED <<fs, savedPath, stdout>>
    /\ UNCHANGED <<env, clock, ticks, accessToken, window, rawRecords, videoIds,
                   i, result, records, fs0, requests, outstanding, runs, replay,
                   prev>>
    /\ UNCHANGED authVars

\* midnight passes.  The date is read in two places only, fetchAnalytics'
\* and saveStandardJson's `new Date()`; a midnight that passes anywhere else
\* shows as one that passes just before the next of these reads.
Tick ==
    /\ pc \in {"fetchAnalytics", "saveStandardJson"}
    /\ ticks < MaxTicks
    /\ ticks' = ticks + 1
    /\ clock' = clock + 1
    /\ UNCHANGED <<pc, env, accessToken, window, rawRecords, videoIds, i, result,
                   records, fs, fs0, savedPath, exitCode, stderr, stdout,
                   requests, responses, outstanding, runs, replay, prev>>
    /\ UNCHANGED authVars

\* the pipeline is started again, with the same environment, and upstream
\* answers as it did
Rerun ==
    /\ pc = "exited"
    /\ runs < MaxRuns
    /\ runs' = runs + 1
    /\ replay' = responses
    /\ prev' = [savedPath |-> savedPath,
                content   |-> IF savedPath # << >> THEN fs[savedPath] ELSE << >>,
                files     |-> DOMAIN fs]
    /\ fs0' = fs
    /\ pc' = "assertEnv"
    /\ accessToken' = Null
    /\ window' = NoWindow
    /\ rawRecords' = << >>
    /\ videoIds' = << >>
    /\ i' = 0
    /\ result' = EmptyMap
    /\ records' = << >>
    /\ savedPath' = << >>
    /\ exitCode' = 0
    /\ stderr' = << >>
    /\ stdout' = << >>
    /\ requests' = << >>
    /\ responses' = << >>
    /\ outstanding' = 0
    /\ UNCHANGED <<env, clock, ticks, fs>>
    /\ UNCHANGED authVars

\* a snapshot an earlier run left under today's name
StaleContent == <<standardize(NumIds + 1, NoMeta, [views |-> 0])>>

AuthIdle ==
    /\ apc = "off"
    /\ args = [code |-> Null]
    /\ aenv = {}
    /\ listening = FALSE
    /\ pending = {}
    /\ inbound = << >>
    /\ callbacks = 0
    /\ exchanges = 0
    /\ printed = 0
    /\ aerrors = << >>
    /\ aexit = 0

MainStart ==
    /\ ticks = 0
    /\ accessToken = Null
    /\ window = NoWindow
    /\ rawRecords = << >>
    /\ i = 0
    /\ result = EmptyMap
    /\ records = << >>
    /\ savedPath = << >>
    /\ exitCode = 0
    /\ stderr = << >>
    /\ stdout = << >>
    /\ requests = << >>
    /\ responses = << >>
    /\ outstanding = 0
    /\ runs = 1
    /\ replay = << >>
    /\ prev = [savedPath |-> << >>, content |-> << >>, files |-> {}]

Init ==
    /\ pc = "assertEnv"
    /\ env \in SUBSET REQUIRED_ENV
    /\ clock = FirstDay
    /\ fs \in {EmptyMap, writeJson(EmptyMap, FilePath(FirstDay, "youtube"), StaleContent)}
    /\ fs0 = fs
    /\ videoIds = << >>
    /\ MainStart
    /\ AuthIdle

Next ==
    \/ assertEnv
    \/ ensureDir
    \/ TokenRequest
    \/ TokenResponse
    \/ AnalyticsRequest
    \/ AnalyticsResponse
    \/ MetaRequest
    \/ MetaResponse
    \/ Normalize
    \/ saveStandardJson
    \/ Tick

Spec == Init /\ [][Next]_vars

\* re-runs start from a properly configured first run in an empty directory
InitRerun ==
    /\ Init
    /\ env = REQUIRED_ENV
    /\ fs = EmptyMap

NextRerun == Next \/ Rerun

SpecRerun == InitRerun /\ [][NextRerun]_vars

-----------------------------------------------------------------------------
(* The date window alone: fetchAnalytics on every day of the calendar *)

MainIdle ==
    /\ pc = "off"
    /\ env = {}
    /\ clock = FirstDay
    /\ fs = EmptyMap
    /\ fs0 = EmptyMap
    /\ videoIds = << >>
    /\ MainStart

TokenOk == [kind |-> "token", ok |-> TRUE, body |-> [access_token |-> "ya29"]]

FsOk == [kind |-> "fs", ok |-> TRUE, body |-> Null]

InitWindow ==
    /\ pc = "fetchAnalytics"
    /\ env = REQUIRED_ENV
    /\ clock \in (FirstDay - MaxDays)..FirstDay
    /\ ticks = 0
    /\ accessToken = "ya29"
    /\ window = NoWindow
    /\ rawRecords = << >>
    /\ videoIds = << >>
    /\ i = 0
    /\ result = EmptyMap
    /\ records = << >>
    /\ fs = EmptyMap
    /\ fs0 = EmptyMap
    /\ savedPath = << >>
    /\ exitCode = 0
    /\ stderr = << >>
    /\ stdout = << >>
    /\ requests = <<Request("token", << >>, NoWindow)>>
    /\ responses = <<FsOk, TokenOk>>
    /\ outstanding = 0
    /\ runs = 1
    /\ replay = << >>
    /\ prev = [savedPath |-> << >>, content |-> << >>, files |-> {}]
    /\ AuthIdle

SpecWindow == InitWindow /\ [][AnalyticsRequest]_vars

-----------------------------------------------------------------------------
(* The batching alone: fetchVideoMetadata on id lists of every length *)

\* n videos the metadata service does not know
UnknownIds(n) == [k \in 1..n |-> NumIds + k]

InitBatch ==
    /\ pc = "fetchVideoMetadata"
    /\ env = REQUIRED_ENV
    /\ clock = FirstDay
    /\ ticks = 0
    /\ accessToken = "ya29"
    /\ window = DateWindow(FirstDay)
    /\ videoIds \in {UnknownIds(n) : n \in 0..MaxVideoIds}
    /\ rawRecords = [k \in 1..Len(videoIds) |->
                       [videoId |-> videoIds[k],
                        metrics |-> [views |-> ViewsCell(k)]]]
    /\ i = 0
    /\ result = EmptyMap
    /\ records = << >>
    /\ fs = EmptyMap
    /\ fs0 = EmptyMap
    /\ savedPath = << >>
    /\ exitCode = 0
    /\ stderr = << >>
    /\ stdout = << >>
    /\ requests = <<Request("token", << >>, NoWindow),
                    Request("reports", << >>, window)>>
    /\ responses = <<FsOk, TokenOk,
                     [kind |-> "analytics", ok |-> TRUE,
                      body |-> [isObject |-> TRUE, hasHeaders |-> TRUE,
                                hasRows |-> TRUE, rows |-> videoIds]]>>
    /\ outstanding = 0
    /\ runs = 1
    /\ replay = << >>
    /\ prev = [savedPath |-> << >>, content |-> << >>, files |-> {}]
    /\ AuthIdle

NextBatch == MetaRequest \/ MetaResponse

SpecBatch == InitBatch /\ [][NextBatch]_vars

-----------------------------------------------------------------------------
(* The authorization helper *)

REQUIRED == {"YT_CLIENT_ID", "YT_CLIENT_SECRET"}

\* what the token endpoint may answer to exchangeCode: a non-success status,
\* a payload without refresh_token, or a payload with one
ExchangeOutcomes ==
    {[ok |-> FALSE, refresh_token |-> Null],
     [ok |-> TRUE,  refresh_token |-> Null],
     [ok |-> TRUE,  refresh_token |-> "1//0g"]}

\* exchangeCode throws on `!response.ok` and on `!payload.refresh_token`
ExchangeThrows(outcome) == ~outcome.ok \/ ~Truthy(outcome.refresh_token)

\* the message of the Error exchangeCode throws
ExchangeError(outcome) ==
    IF ~outcome.ok THEN "Token exchange failed" ELSE "No refresh_token returned"

\* the requests a browser (or anything else) may send to the listener
InboundRequests ==
    {[path |-> "/other", code |-> Null, error |-> Null]}
    \cup {[path |-> "/oauth2callback", code |-> c, error |-> e] :
            c \in {Null, "4/0A"}, e \in {Null, "access_denied"}}

\* assertEnv of the helper
AuthAssertEnv ==
    /\ apc = "assertEnv"
    /\ IF REQUIRED \ aenv # {}
       THEN /\ aerrors' = Append(aerrors, "Missing required environment variables")
            /\ aexit' = 1
            /\ apc' = "exited"
       ELSE /\ apc' = "main"
            /\ UNCHANGED <<aerrors, aexit>>
    /\ UNCHANGED <<args, aenv, listening, pending, inbound, callbacks, exchanges,
                   printed>>
    /\ UNCHANGED mainVars

\* main with --code: exchangeCode is called and its fetch awaited
CodeExchange ==
    /\ apc = "main"
    /\ Truthy(args.code)
    /\ exchanges' = exchanges + 1
    /\ apc' = "awaitExchange"
    /\ UNCHANGED <<args, aenv, listening, pending, inbound, callbacks, printed,
                   aerrors, aexit>>
    /\ UNCHANGED mainVars

\* main with --code: the token is printed and main returns, or the catch
\* reports and exits 1
CodeExchangeReturn ==
    /\ apc = "awaitExchange"
    /\ \E outcome \in ExchangeOutcomes :
         IF ExchangeThrows(outcome)
         THEN /\ aerrors' = Append(aerrors, ExchangeError(outcome))
              /\ aexit' = 1
              /\ UNCHANGED printed
         ELSE /\ printed' = printed + 1
              /\ UNCHANGED <<aerrors, aexit>>
    /\ apc' = "exited"
    /\ UNCHANGED <<args, aenv, listening, pending, inbound, callbacks, exchanges>>
    /\ UNCHANGED mainVars

\* main without --code: createServer, server.listen; main returns and the
\* open server keeps the process alive
Listen ==
    /\ apc = "main"
    /\ ~Truthy(args.code)
    /\ listening' = TRUE
    /\ apc' = "serving"
    /\ UNCHANGED <<args, aenv, pending, inbound, callbacks, exchanges, printed,
                   aerrors, aexit>>
    /\ UNCHANGED mainVars

\* the createServer handler, up to its return or its await of exchangeCode
HandleRequest ==
    /\ apc = "serving"
    /\ listening
    /\ Len(inbound) < MaxInbound
    /\ \E req \in InboundRequests :
         /\ inbound' = Append(inbound, req)
         /\ IF req.path # "/oauth2callback"
            THEN UNCHANGED <<apc, listening, pending, callbacks, exchanges,
                             aerrors, aexit>>
            ELSE IF Truthy(req.error)
            THEN /\ callbacks' = callbacks + 1
                 /\ aerrors' = Append(aerrors, "Authorization error")
                 /\ listening' = FALSE
                 /\ aexit' = 1
                 /\ apc' = "exited"
                 /\ UNCHANGED <<pending, exchanges>>
            ELSE IF ~Truthy(req.code)
            THEN /\ callbacks' = callbacks + 1
                 /\ aerrors' = Append(aerrors, "Missing authorization code.")
                 /\ listening' = FALSE
                 /\ aexit' = 1
                 /\ apc' = "exited"
                 /\ UNCHANGED <<pending, exchanges>>
            ELSE /\ callbacks' = callbacks + 1
                 /\ exchanges' = exchanges + 1
                 /\ pending' = pending \cup {Len(inbound) + 1}
                 /\ UNCHANGED <<apc, listening, aerrors, aexit>>
    /\ UNCHANGED <<args, aenv, printed>>
    /\ UNCHANGED mainVars

\* the handler's continuation once its exchangeCode settles: try, catch
\* and finally
ExchangeReturn ==
    /\ apc = "serving"
    /\ \E h \in pending, outcome \in ExchangeOutcomes :
         /\ pending' = pending \ {h}
         /\ IF ExchangeThrows(outcome)
            THEN /\ aerrors' = Append(aerrors, ExchangeError(outcome))
                 /\ aexit' = 1
                 /\ UNCHANGED printed
            ELSE /\ printed' = printed + 1
                 /\ UNCHANGED <<aerrors, aexit>>
    /\ listening' = FALSE
    /\ UNCHANGED <<apc, args, aenv, inbound, callbacks, exchanges>>
    /\ UNCHANGED mainVars

\* the server is closed and no handler is waiting: the event loop is empty
\* and the process ends with process.exitCode
EventLoopEmpty ==
    /\ apc = "serving"
    /\ ~listening
    /\ pending = {}
    /\ apc' = "exited"
    /\ UNCHANGED <<args, aenv, listening, pending, inbound, callbacks, exchanges,
                   printed, aerrors, aexit>>
    /\ UNCHANGED mainVars

InitAuth ==
    /\ MainIdle
    /\ apc = "assertEnv"
    /\ args \in {[code |-> Null], [code |-> "4/0A"]}
    /\ aenv \in SUBSET REQUIRED
    /\ listening = FALSE
    /\ pending = {}
    /\ inbound = << >>
    /\ callbacks = 0
    /\ exchanges = 0
    /\ printed = 0
    /\ aerrors = << >>
    /\ aexit = 0

NextAuth ==
    \/ AuthAssertEnv
    \/ CodeExchange
    \/ CodeExchangeReturn
    \/ Listen
    \/ HandleRequest
    \/ ExchangeReturn
    \/ EventLoopEmpty

SpecAuth == InitAuth /\ [][NextAuth]_vars

-----------------------------------------------------------------------------
(* Properties *)

\* the HTTP responses among what the run received
HttpResponses == SelectSeq(responses, LAMBDA r : r.kind # "fs")

RequestsTo(endpoint) == SelectSeq(requests, LAMBDA r : r.endpoint = endpoint)

CeilDiv(n, d) == IF n % d = 0 THEN n \div d ELSE n \div d + 1

\* a video is visible when the metadata map has no entry for it or the
\* entry's privacyStatus is "public" or absent
Visible(map, videoId) ==
    \/ videoId \notin DOMAIN map
    \/ map[videoId].privacyStatus \in {"public", Null}

\* the ids of the rows of visible videos, in row order
VisibleIds(raw, map) ==
    SelectSeq([k \in 1..Len(raw) |-> raw[k].videoId],
              LAMBDA v : Visible(map, v))

PostIds(content) == [k \in 1..Len(content) |-> content[k].post_id]

\* the token exchange, the analytics request and every metadata chunk
\* request of this run succeeded
AllRequestsSucceeded ==
    /\ \A k \in 1..Len(responses) : responses[k].ok
    /\ Len(HttpResponses) = 2 + CeilDiv(Len(videoIds), 50)
    /\ HttpResponses[1].kind = "token"
    /\ HttpResponses[1].body.access_token # Null
    /\ HttpResponses[2].kind = "analytics"
    /\ \A k \in 3..Len(HttpResponses) : HttpResponses[k].kind = "meta"

Wrote == savedPath # << >> \/ fs # fs0

C2_OnlyPublicInOutput ==
    /\ \A k \in 1..Len(records) : Visible(result, records[k].post_id)
    /\ savedPath # << >> =>
         \A k \in 1..Len(fs[savedPath]) :
            Visible(result, fs[savedPath][k].post_id)

\* C2 witness: a run wrote records although the report listed an unlisted
\* and a private video
C2_Witness ==
    /\ savedPath # << >>
    /\ Len(fs[savedPath]) > 0
    /\ \E a, b \in 1..Len(rawRecords) :
         /\ rawRecords[a].videoId \in DOMAIN result
         /\ rawRecords[b].videoId \in DOMAIN result
         /\ result[rawRecords[a].videoId].privacyStatus = "private"
         /\ result[rawRecords[b].videoId].privacyStatus = "unlisted"

\* the run received a successful token response without access_token
TokenWithoutAccessToken ==
    \E k \in 1..Len(responses) :
        /\ responses[k].kind = "token"
        /\ responses[k].ok
        /\ responses[k].body.access_token = Null

\* C3: once a successful token response without access_token has arrived,
\* the process has exited with a non-zero code and no request but the token
\* request was ever issued.
C3_NoTokenNoAnalytics ==
    TokenWithoutAccessToken =>
        /\ pc = "exited"
        /\ exitCode # 0
        /\ \A k \in 1..Len(requests) : requests[k].endpoint = "token"

\* C3 witness: such a response arrived and was reported
C3_Witness ==
    /\ TokenWithoutAccessToken
    /\ stderr # << >>

\* C4 (as claimed): at most one callback is processed and at most one token
\* exchange is performed, whatever requests arrive; and once the listener
\* has answered its callback it is closed.
C4_ExactlyOneCallback ==
    /\ callbacks <= 1
    /\ exchanges <= 1
    /\ (callbacks >= 1 /\ pending = {}) => ~listening

\* C5 (as claimed): a helper run in which an error was reported prints no
\* refresh token, and ends with a non-zero exit code.
C5_ErrorsAreFatal ==
    /\ aerrors # << >> => printed = 0
    /\ (apc = "exited" /\ aerrors # << >>) => aexit # 0

\* the id lists of the metadata requests, concatenated in request order
RECURSIVE Concat(_)
Concat(reqs) ==
    IF reqs = << >> THEN << >> ELSE Head(reqs).id \o Concat(Tail(reqs))

\* C6: no metadata request carries more than 50 ids (nor none); the ids
\* requested so far are the ids handed in, up to where the loop stands; and
\* when the loop has ended with every request answered successfully,
\* exactly ceil(N/50) requests were issued for the N ids.
C6_Batching ==
    LET reqs == RequestsTo("videos")
    IN  /\ \A k \in 1..Len(reqs) : Len(reqs[k].id) \in 1..50
        /\ Concat(reqs) = SubSeq(videoIds, 1, Len(Concat(reqs)))
        /\ (pc = "fetchVideoMetadata" /\ ~(i < Len(videoIds))) =>
             /\ Len(reqs) = CeilDiv(Len(videoIds), 50)
             /\ Concat(reqs) = videoIds

\* C6 witness: 100 ids were fetched with two requests
C6_Witness ==
    /\ pc = "fetchVideoMetadata"
    /\ Len(videoIds) = 100
    /\ ~(i < Len(videoIds))
    /\ Len(RequestsTo("videos")) = 2
    /\ \A k \in 1..Len(HttpResponses) : HttpResponses[k].ok

\* a required environment variable is missing
EnvFailure == env # REQUIRED_ENV

\* the token, analytics or metadata endpoint answered with a non-success status
HttpFailure == \E k \in 1..Len(HttpResponses) : ~HttpResponses[k].ok

\* the analytics endpoint answered successfully with an object that lacks
\* rows or columnHeaders
ReportLacksField ==
    \E k \in 1..Len(responses) :
        /\ responses[k].kind = "analytics"
        /\ responses[k].ok
        /\ responses[k].body.isObject
        /\ ~(responses[k].body.hasRows /\ responses[k].body.hasHeaders)

\* the analytics endpoint answered successfully with a body that is no object
ReportNotAnObject ==
    \E k \in 1..Len(responses) :
        /\ responses[k].kind = "analytics"
        /\ responses[k].ok
        /\ ~responses[k].body.isObject

\* a file-system call (ensureDir) threw
FsFailure ==
    \E k \in 1..Len(responses) : responses[k].kind = "fs" /\ ~responses[k].ok

\* C7 (as claimed): the exit code is 0 exactly when the run succeeded, and 1
\* on any environment failure, non-success HTTP response and data-shape
\* failure: an expected field absent from the token or analytics payload.
C7_ExitCodeAsClaimed ==
    pc = "exited" =>
        /\ exitCode = 0 <=> savedPath # << >>
        /\ (EnvFailure \/ HttpFailure \/ TokenWithoutAccessToken
              \/ ReportLacksField) => exitCode = 1

\* C7 (amended): the exit code is 0 exactly when the run wrote its output,
\* and 1 otherwise; it is 1 on a missing required variable, on any
\* non-success HTTP response, on a token payload without access_token, on a
\* report body that is no object and on a file-system error.  A report
\* object that lacks rows or columnHeaders is no failure: unless something
\* else fails, the run writes its output and exits 0.
C7_ExitCode ==
    pc = "exited" =>
        /\ exitCode \in {0, 1}
        /\ exitCode = 0 <=> savedPath # << >>
        /\ (EnvFailure \/ HttpFailure \/ TokenWithoutAccessToken
              \/ ReportNotAnObject \/ FsFailure) => exitCode = 1
        /\ (ReportLacksField /\ ~(EnvFailure \/ HttpFailure \/ FsFailure))
              => exitCode = 0

\* C7 witness: a report without rows, and the run exited 0 with an empty output
C7_Witness ==
    /\ pc = "exited"
    /\ exitCode = 0
    /\ ReportLacksField
    /\ savedPath # << >>
    /\ fs[savedPath] = << >>

\* the number of calendar days from 1970-01-01 to the date written yyyyMMdd
IsLeap(y) == (y % 4 = 0 /\ y % 100 # 0) \/ y % 400 = 0

DaysBeforeMonth == <<0, 31, 59, 90, 120, 151, 181, 212, 243, 273, 304, 334>>

DayNumber(iso) ==
    LET y == iso \div 10000
        m == (iso \div 100) % 100
        d == iso % 100
    IN  365 * (y - 1970) + Cardinality({yy \in 1970..(y - 1) : IsLeap(yy)})
        + DaysBeforeMonth[m] + (IF m > 2 /\ IsLeap(y) THEN 1 ELSE 0) + (d - 1)

\* C8 (as claimed): the window requested has endDate today and covers 28
\* calendar days, counting both startDate and endDate.
C8_Window28Days ==
    pc = "awaitAnalytics" =>
        /\ DayNumber(window.endDate) = clock
        /\ DayNumber(window.endDate) - DayNumber(window.startDate) + 1 = 28

\* C9: when the pipeline was run again on the same day with the same
\* upstream responses, and the run before wrote its output, the re-run wrote
\* the same path, the file holds what it held after the run before, and
\* there are the same files as then.
C9_Idempotent ==
    (runs > 1 /\ pc = "exited" /\ clock = FirstDay /\ prev.savedPath # << >>) =>
        /\ savedPath = prev.savedPath
        /\ fs[savedPath] = prev.content
        /\ DOMAIN fs = prev.files

\* C9 witness: a re-run on the same day wrote records again
C9_Witness ==
    /\ runs > 1
    /\ pc = "exited"
    /\ clock = FirstDay
    /\ prev.savedPath # << >>
    /\ savedPath # << >>
    /\ Len(fs[savedPath]) > 1

\* C10: the token and the analytics endpoint are requested at most once,
\* there are at most ceil(N/50) metadata requests and no two for the same
\* ids; a request is issued only when every earlier one is answered (never
\* two outstanding); and after a non-success response the process has
\* exited and that response's request is the last one issued.
C10_NoRetryFailFast ==
    LET meta == RequestsTo("videos")
    IN  /\ Len(RequestsTo("token")) <= 1
        /\ Len(RequestsTo("reports")) <= 1
        /\ Len(meta) <= CeilDiv(Len(videoIds), 50)
        /\ \A a, b \in 1..Len(meta) : a # b => meta[a].id # meta[b].id
        /\ outstanding \in {0, 1}
        /\ Len(requests) = Len(HttpResponses) + outstanding
        /\ \A k \in 1..Len(HttpResponses) :
             ~HttpResponses[k].ok => (pc = "exited" /\ Len(requests) = k)

\* C10 witness: the first of two metadata chunks failed, and the second was
\* never requested
C10_Witness ==
    /\ pc = "exited"
    /\ Len(videoIds) > 50
    /\ Len(RequestsTo("videos")) = 1
    /\ ~HttpResponses[Len(HttpResponses)].ok

\* the indices of the metrics rows the privacy filter keeps, ascending
KeptRows(raw, map) ==
    SelectSeq([k \in 1..Len(raw) |-> k],
              LAMBDA k : Visible(map, raw[k].videoId))

\* `content` is the kept metrics rows, one record per row and in row order,
\* and a record of a video without a metadata entry has only defaults in
\* its optional fields
RowsInOrder(content, raw, map) ==
    LET kept == KeptRows(raw, map)
    IN  /\ Len(content) = Len(kept)
        /\ \A j \in 1..Len(kept) :
              /\ content[j].post_id = raw[kept[j]].videoId
              /\ content[j].metrics = raw[kept[j]].metrics
              /\ raw[kept[j]].videoId \notin DOMAIN map =>
                    /\ content[j].created_at = Null
                    /\ content[j].text = Null
                    /\ content[j].hashtags = << >>
                    /\ content[j].extra = {}
        /\ \A k \in 1..Len(raw) :
              raw[k].videoId \notin DOMAIN map =>
                \E j \in 1..Len(kept) : kept[j] = k

\* C11: every metrics row whose video has no metadata match is in the output
\* with created_at and text null, hashtags empty and extra without a title;
\* the output (the records built, and the file written) is exactly the
\* metrics rows minus the rows dropped by the privacy filter, in row order.
C11_UnmatchedKeptInOrder ==
    /\ pc = "saveStandardJson" => RowsInOrder(records, rawRecords, result)
    /\ savedPath # << >> =>
         RowsInOrder(fs[savedPath], rawRecords, result)

\* C11 witness: the written file holds, in row order, a record of a video
\* with metadata and a later record of a video without a metadata match,
\* while an earlier row was dropped by the privacy filter
C11_Witness ==
    /\ savedPath # << >>
    /\ \E a, b \in 1..Len(fs[savedPath]) :
         /\ a < b
         /\ fs[savedPath][a].post_id \in DOMAIN result
         /\ fs[savedPath][a].extra # {}
         /\ fs[savedPath][b].post_id \notin DOMAIN result
         /\ fs[savedPath][b].post_id # 0
    /\ \E k \in 1..Len(rawRecords) : ~Visible(result, rawRecords[k].videoId)
    /\ Len(fs[savedPath]) < Len(rawRecords)

====
